---- MODULE Spec2Model ----
(***************************************************************************)
(* SiteSage: the crawl-and-score pipeline (backend/app/crawler.py,         *)
(* backend/app/seo_scorer.py) and the report lifecycle that drives it      *)
(* (backend/app/main.py).                                                  *)
(*                                                                         *)
(* Conventions.  A Python string is modelled by its length where only the  *)
(* length is read (title, meta description) and by a TLA+ string where its *)
(* text is read (error messages, hosts).  None is -1 for lengths and       *)
(* numbers, NullStr for text.  load_time is in milliseconds, scores that   *)
(* the code rounds to two decimals are in hundredths.  Each action is one  *)
(* run of a coroutine between two suspension points of the event loop.     *)
(*                                                                         *)
(* Specifications.  Spec is the report lifecycle with its crawls, and       *)
(* SpecLive is Spec with the fairness of the background task; SpecCap is   *)
(* one crawl of a page with many links; SpecScore is calculate_score and   *)
(* the category scorers, SpecExtract are _extract_links and                *)
(* _extract_images, and SpecProbe is _check_broken_links, each called on   *)
(* its own over a range of arguments.                                      *)
(***************************************************************************)
EXTENDS Integers, Sequences, FiniteSets, TLC

\* ------------------------------------------------------------------ bounds
MaxReports == 1
MaxLinks == 2

\* ------------------------------------------------------- program constants
LinkCap == 50
BrokenStatus == 400
ConnectionFailedStatus == 0
TitleMin == 30
TitleMax == 60
MetaMin == 120
MetaMax == 160
TitleColumn == 500

Null == -1
NullStr == "<null>"
None == [none |-> TRUE]

Min(a, b) == IF a < b THEN a ELSE b
Max(a, b) == IF a > b THEN a ELSE b

ReportIds == 1..MaxReports

\* ------------------------------------------------ the pages the network serves
\* A URL is a host and a path; a reference in a page (href, src) is absolute,
\* relative to the page, a bare fragment, a javascript: pseudo-URL, empty, or
\* missing when the element has no such attribute.
\* The text of an element is the number of characters strip leaves of it (len)
\* and the white space around them (pad).
BaseHost == "example.com"
OtherHost == "other.org"
TargetUrl == [host |-> BaseHost, path |-> 0]

Ref(kind, host, path) == [kind |-> kind, host |-> host, path |-> path]
Text(len, pad) == [len |-> len, pad |-> pad]
\* an element the page does not have
NoElement == Text(Null, 0)

\* The i-th link of the sample document: odd ones point off-site by an
\* absolute URL, even ones on-site by a relative one, so that document order
\* and internal-first order differ.
Anchor(i) ==
    [ href |-> IF i % 2 = 1 THEN Ref("absolute", OtherHost, i) ELSE Ref("relative", "", i),
      text |-> "a" ]

\* A fetched page with n links.  It also holds two anchors and an image that
\* the extractor skips, and pages differ in their other signals, so that
\* scores differ between pages.  NullStr is an attribute that is not there.
RawPage(n) ==
    [ title |-> IF n = 0 THEN NoElement ELSE Text(20 + 25 * n, 2),
      meta_description |-> IF n = 1 THEN NoElement ELSE Text(130, 0),
      og_description |-> IF n = 0 THEN NoElement ELSE Text(90, 1),
      h1 |-> <<Text(0, 3)>> \o [i \in 1..n |-> Text(10, 1)],
      h2 |-> IF n = 2 THEN <<>> ELSE <<Text(12, 0), Text(8, 0)>>,
      imgs |-> <<[src |-> Ref("empty", "", 0), alt |-> "skipped"]>>
                \o [i \in 1..n |->
                      [ src |-> Ref("relative", "", 1000 + i),
                        alt |-> IF i = 1 THEN NullStr ELSE IF i = 2 THEN " " ELSE "logo" ]],
      anchors |-> <<[href |-> Ref("fragment", "", 0), text |-> "top"]>>
                   \o [i \in 1..n |-> Anchor(i)]
                   \o <<[href |-> Ref("javascript", "", 0), text |-> "menu"]>>,
      load_time |-> 500 + 1000 * n,
      page_size |-> 100000 ]

\* a page whose title is one character longer than the column seo_data.title
LongTitlePage == [RawPage(0) EXCEPT !.title = Text(TitleColumn + 1, 0)]

Pages == {RawPage(n) : n \in 0..MaxLinks} \cup {LongTitlePage}

\* The answer to the GET: a status code and a body.  Every page is served with
\* 200; the one-link page is also the body of a 404 and of a 500.
OK == 200
ErrorStatuses == {404, 500}
Response(status, raw) == [status |-> status, body |-> raw]

Responses ==
    {Response(OK, raw) : raw \in Pages}
        \cup {Response(status, RawPage(1)) : status \in ErrorStatuses}

\* str(e) of the exception a stage can raise.  The page fetch can time out
\* (str(asyncio.TimeoutError()) is empty) or fail to connect; extraction can
\* raise on a malformed href (urljoin/urlparse) or run out of memory
\* (str(MemoryError()) is empty).
FetchCauses == {"", "Cannot connect to host"}
ExtractCauses == {"", "Invalid IPv6 URL"}

\* What one HEAD probe can come back with.
InFlight == [kind |-> "inflight", status |-> 0]
ProbeStatuses == {200, 400}
ProbeOutcomes ==
    {[kind |-> "status", status |-> s] : s \in ProbeStatuses}
        \cup {[kind |-> "exception", status |-> 0]}

\* ------------------------------------------------------------ the extractor
\* urljoin(base_url, ref)
urljoin(base_url, ref) ==
    IF ref.kind = "relative" THEN [host |-> base_url.host, path |-> ref.path]
    ELSE [host |-> ref.host, path |-> ref.path]

\* tag.get(attr, '')
GetAttr(attr) == IF attr = NullStr THEN "" ELSE attr

\* str.strip, on the attribute values of the sample pages
Strip(str) == IF str = " " THEN "" ELSE str

\* get_text(strip=True) of the first <title>, None without one; a title is
\* kept as its length
_extract_title(raw) == IF raw.title = NoElement THEN Null ELSE raw.title.len

\* the stripped content of meta[name=description], else of
\* meta[property=og:description], else None
_extract_meta_description(raw) ==
    LET meta == IF raw.meta_description # NoElement THEN raw.meta_description
                ELSE raw.og_description
    IN  IF meta = NoElement THEN Null ELSE meta.len

\* the stripped texts of the headings that have one, as their lengths
_extract_headings(headings) ==
    LET kept == SelectSeq(headings, LAMBDA h : h.len > 0)
    IN  [i \in 1..Len(kept) |-> kept[i].len]

\* has_alt that asks for an alt attribute with a value, blank or not
has_alt_NotTrimmed(alt) == alt # ""

\* bool(alt and alt.strip())
has_alt(alt) == alt # "" /\ Strip(alt) # ""

\* The loop of _extract_images: an img whose src is empty, or missing
\* (img.get('src', '')), is passed over; each of the others adds a record, and
\* adds one to images_without_alt when its has_alt is false.
_extract_images(imgs, base_url) ==
    LET kept == SelectSeq(imgs, LAMBDA img : img.src.kind \notin {"empty", "missing"})
        images == [i \in 1..Len(kept) |->
                    [ src |-> urljoin(base_url, kept[i].src),
                      alt |-> GetAttr(kept[i].alt),
                      has_alt |-> has_alt(GetAttr(kept[i].alt)) ]]
    IN  [ images |-> images,
          total_images |-> Len(images),
          images_without_alt |->
              Cardinality({i \in 1..Len(kept) : ~has_alt(GetAttr(kept[i].alt))}) ]

link_data(a, base_url) == [url |-> urljoin(base_url, a.href), text |-> a.text]

\* _extract_links that hands the links on in document order
_extract_links_DocumentOrder(anchors, base_url) ==
    LET base_domain == base_url.host
        kept == SelectSeq(anchors,
                    LAMBDA a : a.href.kind \notin {"missing", "empty", "fragment", "javascript"})
        all == [i \in 1..Len(kept) |-> link_data(kept[i], base_url)]
        internal_links == SelectSeq(all, LAMBDA l : l.url.host = base_domain)
        external_links == SelectSeq(all, LAMBDA l : l.url.host # base_domain)
    IN  [ internal_links |-> internal_links,
          external_links |-> external_links,
          all_links |-> all,
          total_links |-> Len(internal_links) + Len(external_links) ]

\* find_all('a', href=True) leaves out the anchors without href
_extract_links(anchors, base_url) ==
    LET base_domain == base_url.host
        kept == SelectSeq(anchors,
                    LAMBDA a : a.href.kind \notin {"missing", "empty", "fragment", "javascript"})
        all == [i \in 1..Len(kept) |-> link_data(kept[i], base_url)]
        internal_links == SelectSeq(all, LAMBDA l : l.url.host = base_domain)
        external_links == SelectSeq(all, LAMBDA l : l.url.host # base_domain)
    IN  [ internal_links |-> internal_links,
          external_links |-> external_links,
          all_links |-> internal_links \o external_links,
          total_links |-> Len(internal_links) + Len(external_links) ]

\* seo_data as crawl builds it before the link check
ExtractSeoData(raw, url) ==
    [ title |-> _extract_title(raw),
      meta_description |-> _extract_meta_description(raw),
      h1_tags |-> _extract_headings(raw.h1),
      h2_tags |-> _extract_headings(raw.h2),
      images |-> _extract_images(raw.imgs, url),
      links |-> _extract_links(raw.anchors, url),
      load_time |-> raw.load_time,
      page_size |-> raw.page_size ]

\* -------------------------------------------------------- the link validator
\* check_link with the comparison of line 164 written as > 400
check_link_Above400(link, outcome) ==
    IF outcome.kind = "exception"
    THEN [ url |-> link.url, status_code |-> ConnectionFailedStatus,
           text |-> link.text, error |-> "Connection failed" ]
    ELSE IF outcome.status > BrokenStatus
    THEN [ url |-> link.url, status_code |-> outcome.status, text |-> link.text ]
    ELSE None

\* check_link whose except clause leaves the 'error' entry out
check_link_NoMarker(link, outcome) ==
    IF outcome.kind = "exception"
    THEN [ url |-> link.url, status_code |-> ConnectionFailedStatus, text |-> link.text ]
    ELSE IF outcome.status >= BrokenStatus
    THEN [ url |-> link.url, status_code |-> outcome.status, text |-> link.text ]
    ELSE None

check_link(link, outcome) ==
    IF outcome.kind = "exception"
    THEN [ url |-> link.url, status_code |-> ConnectionFailedStatus,
           text |-> link.text, error |-> "Connection failed" ]
    ELSE IF outcome.status >= BrokenStatus
    THEN [ url |-> link.url, status_code |-> outcome.status, text |-> link.text ]
    ELSE None

\* results kept in one list that every probe appends to as it ends: the
\* outcome goes to the first slot still free
StoreResult_Appended(slots, i, outcome) ==
    LET free == CHOOSE k \in 1..Len(slots) :
                    /\ slots[k].kind = "inflight"
                    /\ \A j \in 1..(k - 1) : slots[j].kind # "inflight"
    IN  [slots EXCEPT ![free] = outcome]

\* gather keeps the result of its i-th child at index i of the list it returns
StoreResult(slots, i, outcome) == [slots EXCEPT ![i] = outcome]

\* gather that resumes the awaiting coroutine at the first exception of a child
GatherDone_FailFast(slots) ==
    \/ \A i \in 1..Len(slots) : slots[i].kind # "inflight"
    \/ \E i \in 1..Len(slots) : slots[i].kind = "exception"

\* asyncio.gather(*tasks, return_exceptions=True): resumes the awaiting
\* coroutine once every child has finished.
GatherDone(slots) == \A i \in 1..Len(slots) : slots[i].kind # "inflight"

\* probes that share one failure flag: an exception of one marks them all
GatherResults_SharedFlag(links, slots) ==
    [i \in 1..Len(links) |->
        IF \E j \in 1..Len(slots) : slots[j].kind = "exception"
        THEN check_link(links[i], [kind |-> "exception", status |-> 0])
        ELSE check_link(links[i], slots[i])]

\* results, in the order of the links, then the filter of line 184
GatherResults(links, slots) ==
    [i \in 1..Len(links) |-> check_link(links[i], slots[i])]

_check_broken_links(links, slots) ==
    SelectSeq(GatherResults(links, slots), LAMBDA r : r # None)

\* the slice written [:51]
ProbedLinks_OffByOne(seo) ==
    SubSeq(seo.links.all_links, 1, Min(LinkCap + 1, Len(seo.links.all_links)))

\* seo_data['links']['all_links'][:50]
ProbedLinks(seo) == SubSeq(seo.links.all_links, 1, Min(LinkCap, Len(seo.links.all_links)))

\* ----------------------------------------------------------------- the scorer
\* seo_data is a dict: a record that may lack keys, and whose values may be
\* None: Null for a number or the length of a text, None for a dict; the keys
\* of its lists that hold None are named under none_lists, a key that a dict
\* built by crawl does not have.  A category
\* score that the code computes by a division is kept as the exact fraction
\* n/d; the others are integers.
\* the weights of the headings and of the links taken for each other
WEIGHTS_HeadingsLinksSwapped ==
    [ title |-> 15, meta_description |-> 15, headings |-> 15,
      images |-> 20, links |-> 20, performance |-> 15 ]

WEIGHTS ==
    [ title |-> 15, meta_description |-> 15, headings |-> 20,
      images |-> 20, links |-> 15, performance |-> 15 ]

\* d.get(key, default)
Get(d, key, default) == IF key \in DOMAIN d THEN d[key] ELSE default

\* {} as the default of a get: a dict with none of the keys that are read
EmptyDict == [unread |-> TRUE]

\* d[key] is None, for the key of a list
IsNone(d, key) == "none_lists" \in DOMAIN d /\ key \in d.none_lists

\* d.get(key, []) where the list is read by `not x` and, when that is false,
\* by len(x): None reads as the empty list
GetList(d, key) == IF IsNone(d, key) THEN <<>> ELSE Get(d, key, <<>>)

\* `not x` for x a list
Empty(list) == list = <<>>

\* _score_title with the lower comparison written <=
_score_title_ShortInclusive(title) ==
    IF title = Null \/ title = 0 THEN 0
    ELSE Max(0, 100 - (IF title <= TitleMin THEN 30 ELSE IF title > TitleMax THEN 20 ELSE 0))

\* `if not title` holds for None and for the empty string
_score_title(title) ==
    IF title = Null \/ title = 0 THEN 0
    ELSE Max(0, 100 - (IF title < TitleMin THEN 30 ELSE IF title > TitleMax THEN 20 ELSE 0))

_score_meta_description(description) ==
    IF description = Null \/ description = 0 THEN 0
    ELSE Max(0, 100 - (IF description < MetaMin THEN 30
                        ELSE IF description > MetaMax THEN 20 ELSE 0))

\* _score_headings with the two H1 checks each under an if of its own, the
\* second written len(h1_tags) != 1
_score_headings_H1ChecksApart(h1_tags, h2_tags) ==
    Max(0, 100 - (IF Empty(h1_tags) THEN 50 ELSE 0)
               - (IF Len(h1_tags) # 1 THEN 20 ELSE 0)
               - (IF Empty(h2_tags) THEN 30 ELSE 0))

_score_headings(h1_tags, h2_tags) ==
    Max(0, 100 - (IF Empty(h1_tags) THEN 50 ELSE IF Len(h1_tags) > 1 THEN 20 ELSE 0)
               - (IF Empty(h2_tags) THEN 30 ELSE 0))

\* _score_images that returns the share of the images without alt text
_score_images_MissingShare(images_data) ==
    LET total_images == Get(images_data, "total_images", 0)
        images_without_alt == Get(images_data, "images_without_alt", 0)
    IN  IF total_images = 0 THEN [n |-> 70, d |-> 1]
        ELSE [n |-> images_without_alt * 100, d |-> total_images]

_score_images(images_data) ==
    LET total_images == Get(images_data, "total_images", 0)
        images_without_alt == Get(images_data, "images_without_alt", 0)
    IN  IF total_images = 0 THEN [n |-> 70, d |-> 1]
        ELSE [n |-> (total_images - images_without_alt) * 100, d |-> total_images]

\* _score_links that grants the bonus whether or not a link is internal
_score_links_BonusAlways(links_data, broken_links) ==
    LET total_links == Get(links_data, "total_links", 0)
        broken_count == Len(broken_links)
        working == (total_links - broken_count) * 100
    IN  IF total_links = 0 THEN [n |-> 50, d |-> 1]
        ELSE [n |-> Min(100 * total_links, working + 10 * total_links), d |-> total_links]

\* _score_links whose bonus is not capped
_score_links_NoCap(links_data, broken_links) ==
    LET total_links == Get(links_data, "total_links", 0)
        broken_count == Len(broken_links)
        working == (total_links - broken_count) * 100
    IN  IF total_links = 0 THEN [n |-> 50, d |-> 1]
        ELSE IF ~Empty(GetList(links_data, "internal_links"))
        THEN [n |-> working + 10 * total_links, d |-> total_links]
        ELSE [n |-> working, d |-> total_links]

_score_links(links_data, broken_links) ==
    LET total_links == Get(links_data, "total_links", 0)
        broken_count == Len(broken_links)
        working == (total_links - broken_count) * 100
    IN  IF total_links = 0 THEN [n |-> 50, d |-> 1]
        ELSE IF ~Empty(GetList(links_data, "internal_links"))
        THEN [n |-> Min(100 * total_links, working + 10 * total_links), d |-> total_links]
        ELSE [n |-> working, d |-> total_links]

_score_performance(load_time, page_size) ==
    LET t == IF load_time = Null \/ load_time = 0 THEN 0
             ELSE IF load_time > 3000 THEN 40
             ELSE IF load_time > 2000 THEN 20
             ELSE IF load_time > 1000 THEN 10 ELSE 0
        s == IF page_size = Null \/ page_size = 0 THEN 0
             ELSE IF page_size > 2 * 1024 * 1024 THEN 30
             ELSE IF 2 * page_size > 3 * 1024 * 1024 THEN 15 ELSE 0
    IN  Max(0, 100 - t - s)

\* The weighted total is kept in hundredths, as the exact fraction n/d.
\* _get_grade(score), for score = n / (100 * d)
_get_grade(n, d) ==
    IF n >= 90 * 100 * d THEN "A"
    ELSE IF n >= 80 * 100 * d THEN "B"
    ELSE IF n >= 70 * 100 * d THEN "C"
    ELSE IF n >= 60 * 100 * d THEN "D"
    ELSE "F"

\* round(score, 2) in hundredths, for score = n / (100 * d): to the nearest
\* hundredth, ties to even
Round2(n, d) ==
    LET q == n \div d
        r == n % d
    IN  IF 2 * r < d THEN q
        ELSE IF 2 * r > d THEN q + 1
        ELSE IF q % 2 = 0 THEN q ELSE q + 1

\* An issue is its wording and the number formatted into it (0 without one);
\* f"{load_time:.2f}" is the load time in hundredths of a second.
Issue(text, n) == [text |-> text, n |-> n]

\* _identify_issues that stops at the first issue of the page
_identify_issues_FirstOnly(seo) ==
    LET title == Get(seo, "title", Null)
        description == Get(seo, "meta_description", Null)
        h1_tags == GetList(seo, "h1_tags")
    IN  IF title = Null \/ title = 0 THEN <<Issue("Missing page title", 0)>>
        ELSE IF title > TitleMax THEN <<Issue("Page title too long (>60 characters)", 0)>>
        ELSE IF description = Null \/ description = 0
        THEN <<Issue("Missing meta description", 0)>>
        ELSE IF Empty(h1_tags) THEN <<Issue("Missing H1 heading", 0)>>
        ELSE <<>>

_identify_issues(seo) ==
    LET title == Get(seo, "title", Null)
        description == Get(seo, "meta_description", Null)
        h1_tags == GetList(seo, "h1_tags")
        images_data == Get(seo, "images", EmptyDict)
        broken_links == Get(seo, "broken_links", <<>>)
        load_time == Get(seo, "load_time", 0)
    IN  (IF title = Null \/ title = 0 THEN <<Issue("Missing page title", 0)>>
         ELSE IF title > TitleMax THEN <<Issue("Page title too long (>60 characters)", 0)>>
         ELSE <<>>)
        \o (IF description = Null \/ description = 0
            THEN <<Issue("Missing meta description", 0)>> ELSE <<>>)
        \o (IF Empty(h1_tags) THEN <<Issue("Missing H1 heading", 0)>>
            ELSE IF Len(h1_tags) > 1
            THEN <<Issue("Multiple H1 headings found", Len(h1_tags))>>
            ELSE <<>>)
        \o (IF Get(images_data, "images_without_alt", 0) > 0
            THEN <<Issue("images missing alt text", images_data.images_without_alt)>>
            ELSE <<>>)
        \o (IF ~Empty(broken_links)
            THEN <<Issue("broken links detected", Len(broken_links))>> ELSE <<>>)
        \o (IF load_time > 3000 THEN <<Issue("Slow load time", Round2(load_time, 10))>>
            ELSE <<>>)

\* calculate_score when nothing in it raises
calculate_score(seo) ==
    LET scores ==
            [ title |-> _score_title(Get(seo, "title", Null)),
              meta_description |->
                  _score_meta_description(Get(seo, "meta_description", Null)),
              headings |-> _score_headings(GetList(seo, "h1_tags"),
                                           GetList(seo, "h2_tags")),
              images |-> _score_images(Get(seo, "images", EmptyDict)),
              links |-> _score_links(Get(seo, "links", EmptyDict),
                                     Get(seo, "broken_links", <<>>)),
              performance |-> _score_performance(Get(seo, "load_time", Null),
                                                 Get(seo, "page_size", Null)) ]
        dI == scores.images.d
        dL == scores.links.d
        \* total_score = n / (100 * d)
        n == ( WEIGHTS.title * scores.title
               + WEIGHTS.meta_description * scores.meta_description
               + WEIGHTS.headings * scores.headings
               + WEIGHTS.performance * scores.performance ) * dI * dL
             + WEIGHTS.images * scores.images.n * dL
             + WEIGHTS.links * scores.links.n * dI
        d == dI * dL
    IN  [ overall_score |-> Round2(n, d),
          breakdown |-> scores,
          grade |-> _get_grade(n, d),
          issues |-> _identify_issues(seo) ]

\* The exception calculate_score raises on seo, "" when it returns: None has
\* no get (images, links: lines 109, 122), no len (broken_links: line 123) and
\* no order with a float (load_time: line 210).
ScorerError(seo) ==
    IF Get(seo, "images", EmptyDict) = None THEN "AttributeError"
    ELSE IF Get(seo, "links", EmptyDict) = None THEN "AttributeError"
    ELSE IF IsNone(seo, "broken_links") THEN "TypeError"
    ELSE IF Get(seo, "load_time", 0) = Null THEN "TypeError"
    ELSE ""

\* one call of calculate_score: the dict it returns or the exception it raises
Score(seo) ==
    IF ScorerError(seo) # "" THEN [kind |-> "raise", error |-> ScorerError(seo)]
    ELSE [kind |-> "return", value |-> calculate_score(seo)]

\* ------------------------------------------------------------ the crawler
\* __aexit__ that closes the session only when the body ended normally
__aexit___OnSuccessOnly(sess, exc) == IF sess = "open" /\ ~exc THEN "closed" ELSE sess

\* a session created with raise_for_status=True
raise_for_status_Enabled(response) == response.status >= 400

\* Whether the GET raises for the status of its answer: the ClientSession of
\* __aenter__ is created without raise_for_status, and crawl never reads
\* response.status.
raise_for_status(response) == FALSE

\* WebCrawler.__aenter__ / __aexit__: the aiohttp session of one crawler.
\* exc tells whether an exception is leaving the async-with body.
__aenter__(sess) == "open"

__aexit__(sess, exc) == IF sess = "open" THEN "closed" ELSE sess

\* seo_data once line 66 has stored the broken links in it
WithBrokenLinks(seo, broken_links) == seo @@ [broken_links |-> broken_links]

\* crawl's except clause: whatever the stage, one Exception with the text of
\* the first failure
CrawlRaises(cause) == [kind |-> "raise", error |-> "Failed to crawl URL: " \o cause]

\* crawl whose link check lets the exception of a probe through
CrawlReturns_ProbeRaises(seo, links, slots) ==
    IF \E i \in 1..Len(slots) : slots[i].kind = "exception"
    THEN [kind |-> "raise", error |-> "Failed to crawl URL: " \o "probe"]
    ELSE [kind |-> "return",
          value |-> seo @@ [broken_links |-> _check_broken_links(links, slots)]]

\* crawl's return, once the link check has returned
CrawlReturns(seo, links, slots) ==
    [kind |-> "return", value |-> WithBrokenLinks(seo, _check_broken_links(links, slots))]

NotCrawled == [kind |-> "none"]
NoData == [kind |-> "none"]

\* ------------------------------------------------------------- the reports
NoReport ==
    [ exists |-> FALSE, status |-> NullStr, seo_score |-> Null,
      completed_at |-> FALSE, error_message |-> NullStr ]

\* models.Report(url=..., status="pending") as create_report commits it
NewReport ==
    [ exists |-> TRUE, status |-> "pending", seo_score |-> Null,
      completed_at |-> FALSE, error_message |-> NullStr ]

ReportProcessing(report) == [report EXCEPT !.status = "processing"]

\* the completion that leaves completed_at as it was
ReportCompleted_NoTimestamp(report, score_result) ==
    [report EXCEPT !.seo_score = score_result.overall_score,
                   !.status = "completed"]

ReportCompleted(report, score_result) ==
    [report EXCEPT !.seo_score = score_result.overall_score,
                   !.status = "completed",
                   !.completed_at = TRUE]

\* the except clause writing a status of its own
ReportFailed_Error(report, e) ==
    [report EXCEPT !.status = "error", !.error_message = e]

ReportFailed(report, e) ==
    [report EXCEPT !.status = "failed", !.error_message = e]

\* models.SEOData(...) of analyze_url
seo_data_model(seo) ==
    [ title |-> seo.title,
      meta_description |-> seo.meta_description,
      h1_tags |-> seo.h1_tags,
      h2_tags |-> seo.h2_tags,
      images |-> seo.images.images,
      total_images |-> seo.images.total_images,
      images_without_alt |-> seo.images.images_without_alt,
      internal_links |-> seo.links.internal_links,
      external_links |-> seo.links.external_links,
      broken_links |-> seo.broken_links,
      total_links |-> seo.links.total_links,
      broken_links_count |-> Len(seo.broken_links),
      load_time |-> seo.load_time,
      page_size |-> seo.page_size ]

NoRow == [kind |-> "none"]
NoCall == [kind |-> "none"]

\* analyze_url without the inner try: the exception of the insight generation
\* reaches the outer except clause
AnalyzeEnds_InsightFatal(crawl, ai) ==
    IF crawl.kind = "raise" \/ ai = "failed" THEN "failed" ELSE "completed"

\* Which way analyze_url leaves its try block: the crawl's exception reaches the
\* outer except clause, an exception of the insight generation is caught by the
\* inner one and the analysis goes on.  ai is "none", "ok" or "failed".
AnalyzeEnds(crawl, ai) == IF crawl.kind = "raise" THEN "failed" ELSE "completed"

VARIABLES
    groq_api_key,   \* settings.groq_api_key is set
    next_id,        \* the next primary key of the reports table
    reports,        \* the committed rows of reports, by id
    seo_rows,       \* the committed rows of seo_data, by report id
    ai_rows,        \* the committed rows of ai_insights, by report id
    pc,             \* where the background task analyze_url(id) stands
    session,        \* the crawler's aiohttp session
    seo_data,       \* crawl's local seo_data
    links,          \* the links handed to _check_broken_links
    slots,          \* the outcome of each probe, in the order of links
    crawl_out,      \* how crawler.crawl ended
    failed_stage,   \* history: the stage whose exception crawl wrapped
    ai_outcome,     \* history: how generate_insights ended
    http_status,    \* history: the status code of the answer to the page fetch
    completed,      \* history: the probes of a link check, in the order they ended
    call,           \* a function of the extractor or the scorer called on its own
    ret             \* what that call returned or raised

vars == << groq_api_key, next_id, reports, seo_rows, ai_rows, pc, session,
           seo_data, links, slots, crawl_out, failed_stage, ai_outcome, http_status,
           completed, call, ret >>

harness == << call, ret >>
history == << http_status, completed >>
db == << reports, seo_rows, ai_rows >>
crawler == << session, seo_data, links, slots, crawl_out, failed_stage >>

Init ==
    /\ groq_api_key \in BOOLEAN
    /\ next_id = 1
    /\ reports = [r \in ReportIds |-> NoReport]
    /\ seo_rows = [r \in ReportIds |-> NoRow]
    /\ ai_rows = [r \in ReportIds |-> FALSE]
    /\ pc = [r \in ReportIds |-> "none"]
    /\ session = [r \in ReportIds |-> "none"]
    /\ seo_data = [r \in ReportIds |-> NoData]
    /\ links = [r \in ReportIds |-> <<>>]
    /\ slots = [r \in ReportIds |-> <<>>]
    /\ crawl_out = [r \in ReportIds |-> NotCrawled]
    /\ failed_stage = [r \in ReportIds |-> "none"]
    /\ ai_outcome = [r \in ReportIds |-> "none"]
    /\ http_status = [r \in ReportIds |-> Null]
    /\ completed = <<>>
    /\ call = NoCall
    /\ ret = NoCall

\* POST /api/reports: commit a pending row, schedule analyze_url(report.id)
create_report ==
    /\ next_id \in ReportIds
    /\ reports' = [reports EXCEPT ![next_id] = NewReport]
    /\ pc' = [pc EXCEPT ![next_id] = "queued"]
    /\ next_id' = next_id + 1
    /\ UNCHANGED << harness, history, groq_api_key, seo_rows, ai_rows, crawler, ai_outcome >>

\* analyze_url up to its first suspension: look the report up, mark it
\* processing, open the crawler's session, send the GET.
AnalyzeStart(r) ==
    /\ pc[r] = "queued"
    /\ IF ~reports[r].exists
       THEN /\ pc' = [pc EXCEPT ![r] = "done"]
            /\ UNCHANGED << reports, session >>
       ELSE /\ reports' = [reports EXCEPT ![r] = ReportProcessing(@)]
            /\ session' = [session EXCEPT ![r] = __aenter__(@)]
            /\ pc' = [pc EXCEPT ![r] = "fetch"]
    /\ UNCHANGED << harness, history, groq_api_key, next_id, seo_rows, ai_rows, seo_data, links,
                    slots, crawl_out, failed_stage, ai_outcome >>

\* crawl between the GET and the link check.  The fetch fails, or the
\* extraction does, or seo_data is built and one probe per link is sent; with
\* no link to probe gather returns at once and so does crawl.
PageFetched(r, raw) ==
    LET seo == ExtractSeoData(raw, TargetUrl)
        probed == ProbedLinks(seo)
    IN  /\ seo_data' = [seo_data EXCEPT ![r] = seo]
        /\ links' = [links EXCEPT ![r] = probed]
        /\ slots' = [slots EXCEPT ![r] = [i \in 1..Len(probed) |-> InFlight]]
        /\ IF probed = <<>>
           THEN /\ crawl_out' = [crawl_out EXCEPT ![r] = CrawlReturns(seo, <<>>, <<>>)]
                /\ pc' = [pc EXCEPT ![r] = "exit"]
           ELSE /\ pc' = [pc EXCEPT ![r] = "probe"]
                /\ UNCHANGED crawl_out
        /\ UNCHANGED failed_stage

StageFailed(r, stage, cause) ==
    /\ crawl_out' = [crawl_out EXCEPT ![r] = CrawlRaises(cause)]
    /\ failed_stage' = [failed_stage EXCEPT ![r] = stage]
    /\ pc' = [pc EXCEPT ![r] = "exit"]
    /\ UNCHANGED << seo_data, links, slots >>

\* The GET settles: no answer comes (the fetch fails), or an answer comes and
\* crawl runs on, without a suspension, to the link check or to its end.
FetchSettles(r) ==
    /\ pc[r] = "fetch"
    /\ \/ /\ \E cause \in FetchCauses : StageFailed(r, "fetch", cause)
          /\ UNCHANGED http_status
       \/ /\ \E cause \in ExtractCauses : StageFailed(r, "extract", cause)
          /\ \E status \in {OK} \cup ErrorStatuses :
                http_status' = [http_status EXCEPT ![r] = status]
       \/ \E response \in Responses :
             /\ http_status' = [http_status EXCEPT ![r] = response.status]
             /\ IF raise_for_status(response)
                THEN StageFailed(r, "fetch", "Not Found")
                ELSE PageFetched(r, response.body)
    /\ UNCHANGED << harness, completed, groq_api_key, next_id, db, session, ai_outcome >>

\* one check_link coroutine gets its answer (or its exception)
ProbeSettles(r, i) ==
    /\ pc[r] = "probe"
    /\ i \in 1..Len(slots[r])
    /\ slots[r][i] = InFlight
    /\ \E outcome \in ProbeOutcomes :
          slots' = [slots EXCEPT ![r] = StoreResult(@, i, outcome)]
    /\ UNCHANGED << harness, history, groq_api_key, next_id, db, pc, session, seo_data, links,
                    crawl_out, failed_stage, ai_outcome >>

\* gather wakes _check_broken_links, which filters the results; crawl returns.
GatherReturns(r) ==
    /\ pc[r] = "probe"
    /\ GatherDone(slots[r])
    /\ crawl_out' = [crawl_out EXCEPT ![r] = CrawlReturns(seo_data[r], links[r], slots[r])]
    /\ pc' = [pc EXCEPT ![r] = "exit"]
    /\ UNCHANGED << harness, history, groq_api_key, next_id, db, session, seo_data, links, slots,
                    failed_stage, ai_outcome >>

\* The INSERT of a seo_data row: PostgreSQL refuses a title longer than the
\* column (String(500)); the other texts are unbounded (Text, JSON).
Fits(row) == row = NoRow \/ row.title <= TitleColumn

\* a commit that writes the row back when it is gone (a merge)
commit_UpsertsRow(deleted, row) == IF Fits(row) THEN "committed" ELSE "raised"

\* Session.commit as analyze_url calls it last.  On a row that is gone
\* (deleted is TRUE) the UPDATE of the flush matches no row and raises
\* StaleDataError; a seo_data row that does not fit makes the INSERT raise
\* DataError.  Either way the session is left rolled back, and the commit of
\* the except clause raises in its turn (PendingRollbackError): nothing is
\* written and the exception leaves analyze_url.
commit(deleted, row) == IF deleted \/ ~Fits(row) THEN "raised" ELSE "committed"

\* The end of analyze_url: the report is completed with its score, its SEO data
\* and its insights, or the except clause marks it failed.
Finish(r, ai) ==
    LET end == AnalyzeEnds(crawl_out[r], ai)
        score_result == calculate_score(crawl_out[r].value)
        row == [reports[r] EXCEPT !.exists = TRUE]
        seo_row == IF end = "completed" THEN seo_data_model(crawl_out[r].value) ELSE NoRow
    IN  IF commit(~reports[r].exists, seo_row) = "raised"
        THEN /\ pc' = [pc EXCEPT ![r] = "raised"]
             /\ UNCHANGED db
        ELSE /\ pc' = [pc EXCEPT ![r] = "done"]
             /\ IF end = "completed"
                THEN /\ reports' = [reports EXCEPT ![r] = ReportCompleted(row, score_result)]
                     /\ seo_rows' = [seo_rows EXCEPT ![r] = seo_row]
                     /\ ai_rows' = [ai_rows EXCEPT ![r] = (ai = "ok")]
                ELSE /\ reports' = [reports EXCEPT ![r] =
                             ReportFailed(row, IF crawl_out[r].kind = "raise"
                                               THEN crawl_out[r].error
                                               ELSE "insight generation failed")]
                     /\ UNCHANGED << seo_rows, ai_rows >>

\* the async-with of analyze_url closes the session; then, without another
\* suspension, either the except clause marks the report failed, or the score
\* is computed and the insight generation is awaited, or, with no API key, the
\* report is completed.
CrawlerExits(r) ==
    /\ pc[r] = "exit"
    /\ session' = [session EXCEPT ![r] = __aexit__(@, crawl_out[r].kind = "raise")]
    /\ IF crawl_out[r].kind = "return" /\ groq_api_key
       THEN /\ pc' = [pc EXCEPT ![r] = "ai"]
            /\ UNCHANGED db
       ELSE Finish(r, "none")
    /\ UNCHANGED << harness, history, groq_api_key, next_id, seo_data, links, slots, crawl_out,
                    failed_stage, ai_outcome >>

\* generate_insights returns or raises
InsightsSettle(r) ==
    /\ pc[r] = "ai"
    /\ \E ai \in {"ok", "failed"} :
          /\ ai_outcome' = [ai_outcome EXCEPT ![r] = ai]
          /\ Finish(r, ai)
    /\ UNCHANGED << harness, history, groq_api_key, next_id, crawler >>

\* GET /api/reports/{id}: the status code of the answer.  The handler reads
\* the row and raises HTTPException(404) when there is none.
get_report_status(r) == IF reports[r].exists THEN 200 ELSE 404

\* DELETE /api/reports/{id}: the status code of the answer
delete_report_status(r) == IF reports[r].exists THEN 204 ELSE 404

\* GET /api/reports/{id} writes nothing
get_report(r) ==
    /\ get_report_status(r) \in {200, 404}
    /\ UNCHANGED vars

\* DELETE /api/reports/{id}: 404 when there is no such row, and nothing is
\* touched; else the row goes, and its seo_data and ai_insights rows with it
\* (cascade)
delete_report(r) ==
    /\ IF delete_report_status(r) = 404
       THEN UNCHANGED db
       ELSE /\ reports' = [reports EXCEPT ![r] = NoReport]
            /\ seo_rows' = [seo_rows EXCEPT ![r] = NoRow]
            /\ ai_rows' = [ai_rows EXCEPT ![r] = FALSE]
    /\ UNCHANGED << harness, history, groq_api_key, next_id, pc, crawler, ai_outcome >>

Next ==
    \/ create_report
    \/ \E r \in ReportIds : get_report(r)
    \/ \E r \in ReportIds : delete_report(r)
    \/ \E r \in ReportIds : AnalyzeStart(r)
    \/ \E r \in ReportIds : FetchSettles(r)
    \/ \E r \in ReportIds : \E i \in 1..MaxLinks : ProbeSettles(r, i)
    \/ \E r \in ReportIds : GatherReturns(r)
    \/ \E r \in ReportIds : CrawlerExits(r)
    \/ \E r \in ReportIds : InsightsSettle(r)

Spec == Init /\ [][Next]_vars

\* The background task of every report is run, and what it waits for ends: the
\* page fetch and each probe within its timeout, the insight generation within
\* that of its client.  Requests arrive or not.
Fairness ==
    \A r \in ReportIds :
        /\ WF_vars(AnalyzeStart(r))
        /\ WF_vars(FetchSettles(r))
        /\ WF_vars(\E i \in 1..MaxLinks : ProbeSettles(r, i))
        /\ WF_vars(GatherReturns(r))
        /\ WF_vars(CrawlerExits(r))
        /\ WF_vars(InsightsSettle(r))

SpecLive == Spec /\ Fairness

\* ------------------------------------------- one crawl of a page of many links
\* The same crawl, for pages whose link count lies around the cap of the link
\* check.  The probes of a batch settle one by one in Spec; here a whole batch
\* settles in one step, each probe with the outcome the network has for its
\* URL, so that batches of LinkCap probes stay within reach.
CapSizes ==
    (0..3) \cup ((LinkCap - 1)..(LinkCap + 2)) \cup ((2 * LinkCap - 1)..(2 * LinkCap + 3))

BigPages == {RawPage(n) : n \in CapSizes}

Networks == {"healthy", "gone", "dead", "mixed"}

NetworkOutcome(net, link) ==
    CASE net = "healthy" -> [kind |-> "status", status |-> 200]
      [] net = "gone" -> [kind |-> "status", status |-> 404]
      [] net = "dead" -> [kind |-> "exception", status |-> 0]
      [] OTHER -> CASE link.url.path % 3 = 0 -> [kind |-> "status", status |-> 399]
                    [] link.url.path % 3 = 1 -> [kind |-> "status", status |-> 500]
                    [] OTHER -> [kind |-> "exception", status |-> 0]

InitCap ==
    /\ groq_api_key \in BOOLEAN
    /\ next_id = 2
    /\ reports = [r \in ReportIds |-> IF r = 1 THEN ReportProcessing(NewReport) ELSE NoReport]
    /\ seo_rows = [r \in ReportIds |-> NoRow]
    /\ ai_rows = [r \in ReportIds |-> FALSE]
    /\ pc = [r \in ReportIds |-> IF r = 1 THEN "fetch" ELSE "none"]
    /\ session = [r \in ReportIds |-> IF r = 1 THEN "open" ELSE "none"]
    /\ seo_data = [r \in ReportIds |-> NoData]
    /\ links = [r \in ReportIds |-> <<>>]
    /\ slots = [r \in ReportIds |-> <<>>]
    /\ crawl_out = [r \in ReportIds |-> NotCrawled]
    /\ failed_stage = [r \in ReportIds |-> "none"]
    /\ ai_outcome = [r \in ReportIds |-> "none"]
    /\ http_status = [r \in ReportIds |-> Null]
    /\ completed = <<>>
    /\ call = NoCall
    /\ ret = NoCall

BigPageFetched ==
    /\ pc[1] = "fetch"
    /\ \E raw \in BigPages : PageFetched(1, raw)
    /\ http_status' = [http_status EXCEPT ![1] = OK]
    /\ UNCHANGED << harness, completed, groq_api_key, next_id, db, session, ai_outcome >>

BatchSettles ==
    /\ pc[1] = "probe"
    /\ \A i \in 1..Len(slots[1]) : slots[1][i] = InFlight
    /\ \E net \in Networks :
          slots' = [slots EXCEPT ![1] =
                        [i \in 1..Len(links[1]) |-> NetworkOutcome(net, links[1][i])]]
    /\ UNCHANGED << harness, history, groq_api_key, next_id, db, pc, session, seo_data, links,
                    crawl_out, failed_stage, ai_outcome >>

NextCap ==
    \/ BigPageFetched
    \/ BatchSettles
    \/ GatherReturns(1)
    \/ CrawlerExits(1)
    \/ InsightsSettle(1)

SpecCap == InitCap /\ [][NextCap]_vars

\* --------------------------------------------- calculate_score called on its own
\* The scorer is a pure function of the dict it is handed.  It is called here
\* on the dicts crawl can return, over the ranges below, and on dicts of
\* which some keys are missing or hold None.
MaxHeadings == 2
MaxImages == 2
MaxScoredLinks == 4
MaxBroken == 2

TitleLengths == {Null, 0, 5, 45, 61}
MetaLengths == {Null, 100, 130, 170}
LoadTimes == {500, 3500}
PageSizes == {100000, 3 * 1024 * 1024}

\* the counts of the images of a page: the small ones, the cached count of
\* images without alt not bound to the total, and a gallery of nine
ImageCounts ==
    {[total_images |-> t, images_without_alt |-> w] : t, w \in 0..MaxImages}
        \cup {[total_images |-> 9, images_without_alt |-> 4]}

\* the counts of the links of a page: the small ones, the broken links not
\* bound to the total, and a page of thirteen links
LinkCounts ==
    {[total |-> t, internal |-> i, broken |-> b] :
        t \in 0..MaxScoredLinks, i \in 0..1, b \in 0..MaxBroken}
        \cup {[total |-> 13, internal |-> 1, broken |-> 4]}

\* seo_data of crawl with the given title and description, h1 + h2 headings,
\* image counts, link counts, load time and page size
CrawlResult(title, description, h1, h2, images, link_counts, load_time, page_size) ==
    [ title |-> title,
      meta_description |-> description,
      h1_tags |-> [i \in 1..h1 |-> 10],
      h2_tags |-> [i \in 1..h2 |-> 12],
      images |-> images,
      links |-> [ internal_links |->
                      [i \in 1..link_counts.internal |->
                          [url |-> [host |-> BaseHost, path |-> i], text |-> "a"]],
                  total_links |-> link_counts.total ],
      broken_links |->
          [i \in 1..link_counts.broken |->
              [ url |-> [host |-> OtherHost, path |-> i], status_code |-> 404,
                text |-> "a" ]],
      load_time |-> load_time,
      page_size |-> page_size ]

\* the keys of seo_data, by the kind of their values
ListKeys == {"h1_tags", "h2_tags", "broken_links"}
DictKeys == {"images", "links"}
ScalarKeys == {"title", "meta_description", "load_time", "page_size"}
SeoKeys == ListKeys \cup DictKeys \cup ScalarKeys

\* what a dict can have under a key: a value, None, or no such key
Presence == {"value", "null", "absent"}

\* a slow page with a long title, two H1, images and links of which some are
\* flawed: each of its keys bears on the result
SampleResult ==
    CrawlResult(61, 130, 2, 1, [total_images |-> 2, images_without_alt |-> 1],
                [total |-> 4, internal |-> 1, broken |-> 1], 3500, 3 * 1024 * 1024)

\* seo with its keys present, None or missing as has tells
Partial(seo, has) ==
    LET held == {k \in SeoKeys : has[k] = "value" \/ (has[k] = "null" /\ k \notin ListKeys)}
    IN  [ k \in held \cup {"none_lists"} |->
            IF k = "none_lists" THEN {l \in ListKeys : has[l] = "null"}
            ELSE IF has[k] = "value" THEN seo[k]
            ELSE IF k \in DictKeys THEN None
            ELSE Null ]

InitPure == Init /\ ~groq_api_key

calculate_score_called(seo) ==
    /\ call' = [kind |-> "calculate_score", arg |-> seo]
    /\ ret' = Score(seo)
    /\ UNCHANGED << groq_api_key, next_id, db, pc, crawler, ai_outcome, history >>

ScoreCrawlResult ==
    /\ call = NoCall
    /\ \E title \in TitleLengths, description \in MetaLengths,
          h1 \in 0..MaxHeadings, h2 \in 0..1,
          images \in ImageCounts, link_counts \in LinkCounts,
          load_time \in LoadTimes, page_size \in PageSizes :
           /\ link_counts.internal <= link_counts.total
           /\ calculate_score_called(
                  CrawlResult(title, description, h1, h2, images, link_counts,
                              load_time, page_size))

ScorePartialResult ==
    /\ call = NoCall
    /\ \E has \in [SeoKeys -> Presence] :
          calculate_score_called(Partial(SampleResult, has))

\* The category scorers called on their own: _score_title and
\* _score_meta_description on None and on a text of every length up to
\* MaxLength, _score_images on {} and on the counts of up to MaxImageCount
\* images.
MaxLength == 170
MaxImageCount == 4

Lengths == {Null} \cup (0..MaxLength)

ImagesData ==
    {EmptyDict} \cup
    { [total_images |-> t, images_without_alt |-> w] :
          t \in 0..MaxImageCount, w \in 0..MaxImageCount }

_score_title_called ==
    /\ call = NoCall
    /\ \E title \in Lengths :
          /\ call' = [kind |-> "_score_title", arg |-> title]
          /\ ret' = [kind |-> "return", value |-> _score_title(title)]
    /\ UNCHANGED << groq_api_key, next_id, db, pc, crawler, ai_outcome, history >>

_score_meta_description_called ==
    /\ call = NoCall
    /\ \E description \in Lengths :
          /\ call' = [kind |-> "_score_meta_description", arg |-> description]
          /\ ret' = [kind |-> "return", value |-> _score_meta_description(description)]
    /\ UNCHANGED << groq_api_key, next_id, db, pc, crawler, ai_outcome, history >>

_score_images_called ==
    /\ call = NoCall
    /\ \E images_data \in ImagesData :
          /\ Get(images_data, "images_without_alt", 0) <= Get(images_data, "total_images", 0)
          /\ call' = [kind |-> "_score_images", arg |-> images_data]
          /\ ret' = [kind |-> "return", value |-> _score_images(images_data)]
    /\ UNCHANGED << groq_api_key, next_id, db, pc, crawler, ai_outcome, history >>

NextScore ==
    \/ ScoreCrawlResult
    \/ ScorePartialResult
    \/ _score_title_called
    \/ _score_meta_description_called
    \/ _score_images_called

SpecScore == InitPure /\ [][NextScore]_vars

\* ------------------------------------------ the extractor called on its own
\* _extract_links and _extract_images are pure functions of the elements of
\* the document and of its URL.  They are called here on every document of up
\* to MaxAnchors anchors, resp. MaxImgs images; the path of a reference is the
\* place of its element in the document.
MaxAnchors == 3
MaxImgs == 3

\* hosts that differ from the host of the page in letter case, or by a subdomain
CaseHost == "Example.COM"
SubHost == "www.example.com"

\* what an href can be: no attribute, nothing, a fragment, a script, a path on
\* the page's host, or an absolute URL
Hrefs ==
    {[kind |-> k, host |-> ""] : k \in {"missing", "empty", "fragment", "javascript", "relative"}}
        \cup {[kind |-> "absolute", host |-> h] : h \in {BaseHost, CaseHost, SubHost, OtherHost}}

\* what the src and the alt of an img can be
Srcs == {"missing", "empty", "relative"}
Alts == {NullStr, "", " ", "logo"}

AnchorsOf(hrefs) ==
    [i \in 1..Len(hrefs) |-> [href |-> Ref(hrefs[i].kind, hrefs[i].host, i), text |-> "a"]]

ImgsOf(srcs, alts) ==
    [i \in 1..Len(srcs) |-> [src |-> Ref(srcs[i], "", i), alt |-> alts[i]]]

_extract_links_called ==
    /\ call = NoCall
    /\ \E n \in 0..MaxAnchors : \E hrefs \in [1..n -> Hrefs] :
          /\ call' = [ kind |-> "_extract_links",
                       arg |-> [anchors |-> AnchorsOf(hrefs), base_url |-> TargetUrl] ]
          /\ ret' = [ kind |-> "return",
                      value |-> _extract_links(AnchorsOf(hrefs), TargetUrl) ]
    /\ UNCHANGED << groq_api_key, next_id, db, pc, crawler, ai_outcome, history >>

_extract_images_called ==
    /\ call = NoCall
    /\ \E n \in 0..MaxImgs : \E srcs \in [1..n -> Srcs], alts \in [1..n -> Alts] :
          /\ call' = [ kind |-> "_extract_images",
                       arg |-> [imgs |-> ImgsOf(srcs, alts), base_url |-> TargetUrl] ]
          /\ ret' = [ kind |-> "return",
                      value |-> _extract_images(ImgsOf(srcs, alts), TargetUrl) ]
    /\ UNCHANGED << groq_api_key, next_id, db, pc, crawler, ai_outcome, history >>

NextExtract ==
    \/ _extract_links_called
    \/ _extract_images_called

SpecExtract == InitPure /\ [][NextExtract]_vars

\* ------------------------------------- _check_broken_links called on its own
\* The link check of one list of links, against a network whose answer to each
\* probe is settled beforehand (call.outcomes); the probes end one by one, in
\* any order, and completed keeps that order.
MaxProbes == 3

_check_broken_links_called ==
    /\ call = NoCall
    /\ \E n \in 0..MaxProbes : \E outcomes \in [1..n -> ProbeOutcomes] :
          LET probed == ProbedLinks(ExtractSeoData(RawPage(n), TargetUrl))
          IN  /\ call' = [kind |-> "_check_broken_links", arg |-> probed,
                          outcomes |-> outcomes]
              /\ links' = [links EXCEPT ![1] = probed]
              /\ slots' = [slots EXCEPT ![1] = [i \in 1..Len(probed) |-> InFlight]]
    /\ UNCHANGED << ret, http_status, completed, groq_api_key, next_id, db, pc, session,
                    seo_data, crawl_out, failed_stage, ai_outcome >>

\* the i-th check_link coroutine ends
ProbeCompletes(i) ==
    /\ call.kind = "_check_broken_links"
    /\ ret = NoCall
    /\ i \in 1..Len(links[1])
    /\ \A k \in 1..Len(completed) : completed[k] # i
    /\ slots' = [slots EXCEPT ![1] = StoreResult(@, i, call.outcomes[i])]
    /\ completed' = Append(completed, i)
    /\ UNCHANGED << harness, http_status, groq_api_key, next_id, db, pc, session,
                    seo_data, links, crawl_out, failed_stage, ai_outcome >>

\* gather wakes _check_broken_links, which filters the results and returns
_check_broken_links_returns ==
    /\ call.kind = "_check_broken_links"
    /\ ret = NoCall
    /\ GatherDone(slots[1])
    /\ ret' = [kind |-> "return", value |-> _check_broken_links(links[1], slots[1])]
    /\ UNCHANGED << call, history, groq_api_key, next_id, db, pc, crawler, ai_outcome >>

NextProbe ==
    \/ _check_broken_links_called
    \/ \E i \in 1..MaxProbes : ProbeCompletes(i)
    \/ _check_broken_links_returns

SpecProbe == InitPure /\ [][NextProbe]_vars

\* ================================================================ properties
Returned(r) == crawl_out[r].kind = "return"
BrokenLinks(r) == crawl_out[r].value.broken_links

\* the link validator reports the i-th of the links it was handed
Reported(r, i) ==
    \E k \in 1..Len(BrokenLinks(r)) : BrokenLinks(r)[k].url = links[r][i].url

Failing(outcome) ==
    \/ outcome.kind = "exception"
    \/ outcome.kind = "status" /\ outcome.status >= 400

\* C1: whatever the probes of a batch come back with, the link validator
\* returns a list (crawl returns, nothing is raised), and a link is reported
\* broken exactly when it would be in a batch of its own with the same probe
\* outcome: the outcomes of its siblings do not matter.
C1_BatchIsolated ==
    \A r \in ReportIds :
        /\ (pc[r] \in {"exit", "ai", "done"} /\ seo_data[r] # NoData)
              => /\ Returned(r)
                 /\ Len(BrokenLinks(r)) <= Len(links[r])
        /\ Returned(r) =>
              \A i \in 1..Len(links[r]) :
                  Reported(r, i) <=>
                      _check_broken_links(<<links[r][i]>>, <<slots[r][i]>>) # <<>>

\* a batch of two probes has returned, every probe of which raised: each
\* link is reported
C1_Witness ==
    \E r \in ReportIds :
        /\ Returned(r)
        /\ Len(links[r]) >= 2
        /\ \A i \in 1..Len(links[r]) : slots[r][i].kind = "exception" /\ Reported(r, i)
        /\ Len(BrokenLinks(r)) = Len(links[r])

\* C2: when the broken-link list has been returned to crawl, every probe that
\* was issued has settled; none is still in flight.
C2_AllProbesSettled ==
    \A r \in ReportIds :
        Returned(r) =>
            /\ Len(slots[r]) = Len(links[r])
            /\ \A i \in 1..Len(slots[r]) : slots[r][i].kind \in {"status", "exception"}

\* a batch has returned in which a probe raised and a sibling answered
C2_Witness ==
    \E r \in ReportIds :
        /\ Returned(r)
        /\ \E i, j \in 1..Len(slots[r]) :
              slots[r][i].kind = "exception" /\ slots[r][j].kind = "status"

\* C3: a probed link is in the returned list iff its probe raised or came back
\* with a status >= 400, and the list holds nothing else.
C3_BrokenIffFailing ==
    \A r \in ReportIds :
        Returned(r) =>
            /\ \A i \in 1..Len(links[r]) : Reported(r, i) <=> Failing(slots[r][i])
            /\ Len(BrokenLinks(r)) =
                  Cardinality({i \in 1..Len(links[r]) : Failing(slots[r][i])})

\* a batch has returned with a probe answered 400 and reported, and another
\* answered below 400 and not reported
C3_Witness ==
    \E r \in ReportIds :
        /\ Returned(r)
        /\ \E i, j \in 1..Len(links[r]) :
              /\ slots[r][i] = [kind |-> "status", status |-> 400] /\ Reported(r, i)
              /\ slots[r][j].kind = "status" /\ slots[r][j].status < 400
              /\ ~Reported(r, j)
        /\ Len(BrokenLinks(r)) < Len(links[r])

Internal(seo) == seo.links.internal_links
External(seo) == seo.links.external_links

\* C5: the probes go to the first min(50, total_links) entries of the combined
\* list, which is the internal links followed by the external ones; no link
\* from index 51 on is probed or reported, so at most min(50, total_links)
\* records come back.
C5_FirstFiftyOnly ==
    \A r \in ReportIds :
        seo_data[r] # NoData =>
            LET seo == seo_data[r]
                all == seo.links.all_links
                cap == IF seo.links.total_links < 50 THEN seo.links.total_links ELSE 50
            IN  /\ Len(all) = seo.links.total_links
                /\ \A i \in 1..Len(all) :
                      all[i] = IF i <= Len(Internal(seo)) THEN Internal(seo)[i]
                               ELSE External(seo)[i - Len(Internal(seo))]
                /\ \A i \in 1..Len(Internal(seo)) : Internal(seo)[i].url.host = TargetUrl.host
                /\ \A i \in 1..Len(External(seo)) : External(seo)[i].url.host # TargetUrl.host
                /\ Len(links[r]) = cap
                /\ Len(slots[r]) = cap
                /\ \A i \in 1..cap : links[r][i] = all[i]
                /\ Returned(r) =>
                      /\ Len(BrokenLinks(r)) <= cap
                      /\ \A k \in 1..Len(BrokenLinks(r)) :
                            /\ \E i \in 1..cap : all[i].url = BrokenLinks(r)[k].url
                            /\ \A i \in (cap + 1)..Len(all) :
                                  all[i].url # BrokenLinks(r)[k].url

\* a page of more than 50 links, internal and external, every one of them
\* unreachable, has been crawled: 50 records came back
C5_Witness ==
    \E r \in ReportIds :
        /\ Returned(r)
        /\ seo_data[r].links.total_links > 50
        /\ Len(External(seo_data[r])) > 0
        /\ Len(BrokenLinks(r)) = 50
        /\ \A i \in 1..Len(slots[r]) : slots[r][i].kind = "exception"

\* the text crawl raises for a cause
Wrapped(causes) == {CrawlRaises(cause).error : cause \in causes}

\* C6: crawl is all-or-nothing.  When the fetch or the extraction fails, crawl
\* raises one wrapped error and returns no result, and nothing of the crawl is
\* scored or stored: the report ends failed with that error.  When the page was
\* fetched and extracted, crawl does not raise, whatever the probes do.
C6_AllOrNothing ==
    \A r \in ReportIds :
        /\ failed_stage[r] # "none" => crawl_out[r].kind = "raise"
        /\ crawl_out[r].kind = "raise" =>
              /\ failed_stage[r] \in {"fetch", "extract"}
              /\ DOMAIN crawl_out[r] = {"kind", "error"}
              /\ crawl_out[r].error \in Wrapped(FetchCauses \cup ExtractCauses)
              /\ seo_data[r] = NoData
              /\ seo_rows[r] = NoRow
              /\ ~ai_rows[r]
              /\ reports[r].seo_score = Null
              /\ (pc[r] = "done" /\ reports[r].exists) =>
                    /\ reports[r].status = "failed"
                    /\ reports[r].error_message = crawl_out[r].error
        /\ seo_data[r] # NoData => crawl_out[r].kind # "raise"

\* the analysis of a page whose extraction failed has ended: the report is
\* failed, nothing is stored
C6_Witness ==
    \E r \in ReportIds :
        /\ pc[r] = "done"
        /\ failed_stage[r] = "extract"
        /\ reports[r].status = "failed"
        /\ reports[r].error_message = "Failed to crawl URL: Invalid IPv6 URL"
        /\ seo_rows[r] = NoRow

\* C7: the session is open while the page fetch or a link probe is under way,
\* and closed once the async-with of the crawl is left, whether crawl returned
\* or raised; no analysis ends with its session open.
C7_SessionReleased ==
    \A r \in ReportIds :
        /\ pc[r] \in {"none", "queued"} => session[r] = "none"
        /\ pc[r] \in {"fetch", "probe", "exit"} => session[r] = "open"
        /\ (\E i \in 1..Len(slots[r]) : slots[r][i].kind = "inflight") => session[r] = "open"
        /\ pc[r] = "ai" => session[r] = "closed"
        /\ (pc[r] \in {"done", "raised"} /\ crawl_out[r].kind # "none") => session[r] = "closed"
        /\ pc[r] \in {"done", "raised"} => session[r] # "open"

\* an analysis whose page fetch failed has ended, its session closed
C7_Witness ==
    \E r \in ReportIds :
        /\ pc[r] = "done"
        /\ failed_stage[r] = "fetch"
        /\ session[r] = "closed"

\* the exception texts of a stage; the link check raises nothing
StageCauses(stage) ==
    CASE stage = "fetch" -> FetchCauses
      [] stage = "extract" -> ExtractCauses
      [] OTHER -> {}

\* C8: the error crawl raises tells the stage that failed: no failure of
\* another stage yields the same error.
C8_StageDistinguishable ==
    \A r \in ReportIds :
        crawl_out[r].kind = "raise" =>
            \A stage \in {"fetch", "extract", "validate"} \ {failed_stage[r]} :
                \A cause \in StageCauses(stage) : CrawlRaises(cause) # crawl_out[r]

Statuses == {"pending", "processing", "completed", "failed"}

StatusMoves ==
    { <<"pending", "processing">>, <<"processing", "completed">>,
      <<"processing", "failed">> }

\* C9: the status of a report is one of pending, processing, completed,
\* failed; a report is pending when create_report has committed it; the
\* status only moves pending -> processing -> completed or failed, so
\* completed and failed are never left.
C9_StatusLifecycle ==
    /\ [](\A r \in ReportIds : reports[r].exists => reports[r].status \in Statuses)
    /\ [][\A r \in ReportIds :
            /\ (~reports[r].exists /\ reports'[r].exists) => reports'[r].status = "pending"
            /\ (reports[r].exists /\ reports'[r].exists
                    /\ reports'[r].status # reports[r].status)
                  => <<reports[r].status, reports'[r].status>> \in StatusMoves]_vars

\* a report has gone from pending through processing to failed
C9_Witness ==
    \E r \in ReportIds :
        /\ reports[r].exists
        /\ reports[r].status = "failed"
        /\ pc[r] = "done"

\* C10: when the insight generation raised, the report is completed with the
\* score and the SEO data of the crawl stored and no insight row; it is not
\* failed.  (An analysis whose last commit raised has written nothing, whatever
\* the insight generation did.)
C10_InsightFailureTolerated ==
    \A r \in ReportIds :
        (ai_outcome[r] = "failed" /\ reports[r].exists /\ pc[r] # "raised") =>
            /\ pc[r] = "done"
            /\ reports[r].status = "completed"
            /\ reports[r].completed_at
            /\ reports[r].error_message = NullStr
            /\ reports[r].seo_score # Null
            /\ reports[r].seo_score = calculate_score(crawl_out[r].value).overall_score
            /\ seo_rows[r] = seo_data_model(crawl_out[r].value)
            /\ ~ai_rows[r]

\* a page with a broken link was crawled and scored, the insight generation
\* raised, the report is completed
C10_Witness ==
    \E r \in ReportIds :
        /\ ai_outcome[r] = "failed"
        /\ reports[r].status = "completed"
        /\ reports[r].seo_score > 0
        /\ seo_rows[r] # NoRow
        /\ seo_rows[r].broken_links_count > 0
        /\ ~ai_rows[r]

\* calculate_score was called and returned
Scored == call.kind = "calculate_score" /\ ret.kind = "return"

\* what the scorer reads of the counts of seo
TotalImages(seo) == Get(Get(seo, "images", EmptyDict), "total_images", 0)
WithoutAlt(seo) == Get(Get(seo, "images", EmptyDict), "images_without_alt", 0)
TotalLinks(seo) == Get(Get(seo, "links", EmptyDict), "total_links", 0)
BrokenCount(seo) == Len(Get(seo, "broken_links", <<>>))

\* the data-model invariants of a crawl result
WellFormed(seo) ==
    /\ 0 <= WithoutAlt(seo) /\ WithoutAlt(seo) <= TotalImages(seo)
    /\ BrokenCount(seo) <= TotalLinks(seo)
    /\ Get(seo, "load_time", 0) >= 0
    /\ Get(seo, "page_size", 0) >= 0

InRange(x) == 0 <= x /\ x <= 100
FractionInRange(f) == f.d > 0 /\ 0 <= f.n /\ f.n <= 100 * f.d

\* C11: for a crawl result that satisfies the data-model invariants, each of
\* the six category scores lies in [0,100], and so does the overall score.
C11_ScoresInRange ==
    (Scored /\ WellFormed(call.arg)) =>
        LET out == ret.value
        IN  /\ InRange(out.breakdown.title)
            /\ InRange(out.breakdown.meta_description)
            /\ InRange(out.breakdown.headings)
            /\ FractionInRange(out.breakdown.images)
            /\ FractionInRange(out.breakdown.links)
            /\ InRange(out.breakdown.performance)
            /\ 0 <= out.overall_score /\ out.overall_score <= 100 * 100

\* a flawless page was scored: every link works and one is internal, so the
\* bonus meets its cap, and the overall score is 100
C11_Witness ==
    /\ Scored
    /\ WellFormed(call.arg)
    /\ TotalLinks(call.arg) > 0
    /\ BrokenCount(call.arg) = 0
    /\ call.arg.links.internal_links # <<>>
    /\ ret.value.breakdown.links.n = 100 * ret.value.breakdown.links.d
    /\ ret.value.overall_score = 100 * 100

\* the grade of an overall score given in hundredths
GradeOf(overall) ==
    IF overall >= 90 * 100 THEN "A"
    ELSE IF overall >= 80 * 100 THEN "B"
    ELSE IF overall >= 70 * 100 THEN "C"
    ELSE IF overall >= 60 * 100 THEN "D"
    ELSE "F"

\* C12: the grade calculate_score returns is the grade of the overall score
\* it returns (the weighted sum rounded to two decimals), a boundary value
\* belonging to the higher grade: 90.00 comes with A, 89.99 with B, 60.00 with
\* D, 59.99 with F.
C12_GradeOfReturnedScore ==
    Scored => ret.value.grade = GradeOf(ret.value.overall_score)

\* C13: calculate_score never fails: whichever of the keys of the crawl result
\* are missing or hold None, it returns a complete result (overall score,
\* breakdown, grade, issues).
C13_ScorerTotal ==
    call.kind = "calculate_score" =>
        /\ ret.kind = "return"
        /\ DOMAIN ret.value = {"overall_score", "breakdown", "grade", "issues"}

\* the issue list holds an issue of this wording and number
HasIssue(issues, text, n) == \E i \in 1..Len(issues) : issues[i] = Issue(text, n)

\* the page of the scenario: title 'Short', no meta description, one H1, no H2,
\* two images both without alt, three links none internal and none broken,
\* loaded in 0.5 s, 100 KB
ShortTitlePage(seo) ==
    /\ DOMAIN seo = SeoKeys
    /\ seo.title = 5
    /\ seo.meta_description = Null
    /\ Len(seo.h1_tags) = 1
    /\ Len(seo.h2_tags) = 0
    /\ seo.images.total_images = 2
    /\ seo.images.images_without_alt = 2
    /\ seo.links.total_links = 3
    /\ Len(seo.links.internal_links) = 0
    /\ Len(seo.broken_links) = 0
    /\ seo.load_time = 500
    /\ seo.page_size = 100000

\* C14: for that page calculate_score returns title 70, meta 0, headings 70,
\* images 0, links 100, performance 100, overall 54.5, grade F, and issues
\* that include 'Missing meta description' and '2 images missing alt text'.
C14_ShortTitleScenario ==
    (call.kind = "calculate_score" /\ ShortTitlePage(call.arg)) =>
        /\ ret.kind = "return"
        /\ ret.value.breakdown.title = 70
        /\ ret.value.breakdown.meta_description = 0
        /\ ret.value.breakdown.headings = 70
        /\ ret.value.breakdown.images.n = 0
        /\ ret.value.breakdown.links.n = 100 * ret.value.breakdown.links.d
        /\ ret.value.breakdown.performance = 100
        /\ ret.value.overall_score = 5450
        /\ ret.value.grade = "F"
        /\ HasIssue(ret.value.issues, "Missing meta description", 0)
        /\ HasIssue(ret.value.issues, "images missing alt text", 2)

\* the page of the scenario was scored
C14_Witness ==
    /\ Scored
    /\ ShortTitlePage(call.arg)
    /\ ret.value.overall_score = 5450
    /\ Len(ret.value.issues) = 2

\* _extract_links was called and returned
LinksExtracted == call.kind = "_extract_links" /\ ret.kind = "return"

\* the anchors of the document that are retained: those with an href that is
\* neither empty, nor a bare fragment, nor a javascript: pseudo-URL
Retained(anchors) ==
    {i \in 1..Len(anchors) :
        anchors[i].href.kind \notin {"missing", "empty", "fragment", "javascript"}}

\* the places in the document of the links of a list
PlacesOf(list) == {list[k].url.path : k \in 1..Len(list)}

\* the links of a list are distinct and in the order of the document
InDocumentOrder(list) ==
    \A j, k \in 1..Len(list) : j < k => list[j].url.path < list[k].url.path

\* C15: after _extract_links, every retained anchor is in exactly one of
\* internal_links and external_links, total_links is the sum of their
\* lengths, and all_links is internal_links followed by external_links, each
\* in document order.
C15_LinksPartitioned ==
    LinksExtracted =>
        LET out == ret.value
            kept == Retained(call.arg.anchors)
        IN  /\ PlacesOf(out.internal_links) \cup PlacesOf(out.external_links) = kept
            /\ PlacesOf(out.internal_links) \cap PlacesOf(out.external_links) = {}
            /\ Len(out.internal_links) + Len(out.external_links) = Cardinality(kept)
            /\ out.total_links = Len(out.internal_links) + Len(out.external_links)
            /\ out.all_links = out.internal_links \o out.external_links
            /\ InDocumentOrder(out.internal_links)
            /\ InDocumentOrder(out.external_links)

\* a document was extracted in which an external link comes before an
\* internal one and an anchor is not retained
C15_Witness ==
    /\ LinksExtracted
    /\ Cardinality(Retained(call.arg.anchors)) < Len(call.arg.anchors)
    /\ Len(ret.value.internal_links) > 0
    /\ Len(ret.value.external_links) > 0
    /\ ret.value.external_links[1].url.path < ret.value.internal_links[1].url.path

\* str.lower on the hosts of the documents
Lower(host) == IF host = CaseHost THEN BaseHost ELSE host

SameHost(url, base_url) == Lower(url.host) = Lower(base_url.host)

\* C16: a link is classified internal if and only if its host equals the host
\* of the crawl target, letter case ignored and subdomains not folded; a link
\* whose host differs from the target's in letter case only is internal.
C16_InternalIffSameHost ==
    LinksExtracted =>
        /\ \A k \in 1..Len(ret.value.internal_links) :
              SameHost(ret.value.internal_links[k].url, call.arg.base_url)
        /\ \A k \in 1..Len(ret.value.external_links) :
              ~SameHost(ret.value.external_links[k].url, call.arg.base_url)

\* _extract_images was called and returned
ImagesExtracted == call.kind = "_extract_images" /\ ret.kind = "return"

\* the img elements of the document that have a src with something in it
WithSrc(imgs) == {i \in 1..Len(imgs) : imgs[i].src.kind \notin {"missing", "empty"}}

\* the alt text of an element, trimmed, has something in it
AltText(alt) == alt \notin {NullStr, "", " "}

\* C17: after _extract_images, images_without_alt is the number of image
\* records with has_alt false, total_images the number of image records, has_alt
\* is true iff the trimmed alt text is not empty, and the img elements with an
\* empty or missing src are in neither the list nor the counts.
C17_ImageCounts ==
    ImagesExtracted =>
        LET out == ret.value
            imgs == call.arg.imgs
        IN  /\ out.total_images = Len(out.images)
            /\ out.images_without_alt =
                  Cardinality({k \in 1..Len(out.images) : ~out.images[k].has_alt})
            /\ {out.images[k].src.path : k \in 1..Len(out.images)} = WithSrc(imgs)
            /\ Len(out.images) = Cardinality(WithSrc(imgs))
            /\ \A k \in 1..Len(out.images) :
                  out.images[k].has_alt <=> AltText(imgs[out.images[k].src.path].alt)

\* a document was extracted that holds an img without src, an img whose alt is
\* blank and an img with an alt text
C17_Witness ==
    /\ ImagesExtracted
    /\ Len(ret.value.images) < Len(call.arg.imgs)
    /\ \E i \in 1..Len(call.arg.imgs) : call.arg.imgs[i].src.kind = "missing"
    /\ \E k \in 1..Len(ret.value.images) :
          ret.value.images[k].alt = " " /\ ~ret.value.images[k].has_alt
    /\ \E k \in 1..Len(ret.value.images) : ret.value.images[k].has_alt
    /\ ret.value.images_without_alt = 1

\* the issues that apply to seo, in the order of the list: a missing title or
\* else a title of more than 60 characters, a missing meta description, a missing
\* H1 or else several H1 with their number, N > 0 images without alt text with
\* N, N > 0 broken links with N, a load time over 3 s with its value
Applicable(seo) ==
    LET title == Get(seo, "title", Null)
        description == Get(seo, "meta_description", Null)
        h1 == Len(GetList(seo, "h1_tags"))
        load_time == Get(seo, "load_time", 0)
        is(cond, text, n) == IF cond THEN <<Issue(text, n)>> ELSE <<>>
    IN  is(title \in {Null, 0}, "Missing page title", 0)
        \o is(title > 60, "Page title too long (>60 characters)", 0)
        \o is(description \in {Null, 0}, "Missing meta description", 0)
        \o is(h1 = 0, "Missing H1 heading", 0)
        \o is(h1 > 1, "Multiple H1 headings found", h1)
        \o is(WithoutAlt(seo) > 0, "images missing alt text", WithoutAlt(seo))
        \o is(BrokenCount(seo) > 0, "broken links detected", BrokenCount(seo))
        \o is(load_time > 3000, "Slow load time", Round2(load_time, 10))

\* C18: the issue list of calculate_score holds exactly the issues that apply,
\* each condition checked on its own, none left out however many apply, in
\* the fixed order.
C18_IssuesExact ==
    Scored => ret.value.issues = Applicable(call.arg)

\* a page with six issues was scored: no title, no meta description, no H1,
\* images without alt text, broken links, slow
C18_Witness ==
    /\ Scored
    /\ Len(ret.value.issues) = 6
    /\ ret.value.issues[1].text = "Missing page title"
    /\ ret.value.issues[6] = Issue("Slow load time", 350)

\* the number of H1, resp. H2, headings of seo
H1Count(seo) == Len(GetList(seo, "h1_tags"))
H2Count(seo) == Len(GetList(seo, "h2_tags"))

\* C19: the heading score is 100, minus 50 with no H1, minus 20 with more than
\* one H1 (never both), minus 30 with no H2: one of 100, 80, 70, 50, 20, it is
\* 100 exactly with one H1 and at least one H2, and never below 20.
C19_HeadingScore ==
    Scored =>
        LET h1 == H1Count(call.arg)
            h2 == H2Count(call.arg)
            headings == ret.value.breakdown.headings
        IN  /\ headings = 100 - (IF h1 = 0 THEN 50 ELSE 0) - (IF h1 > 1 THEN 20 ELSE 0)
                              - (IF h2 = 0 THEN 30 ELSE 0)
            /\ headings \in {100, 80, 70, 50, 20}
            /\ headings = 100 <=> (h1 = 1 /\ h2 >= 1)
            /\ headings >= 20

\* a page without H1 and without H2 was scored 20 for its headings
C19_Witness ==
    /\ Scored
    /\ H1Count(call.arg) = 0
    /\ H2Count(call.arg) = 0
    /\ ret.value.breakdown.headings = 20

\* seo has an internal link
HasInternal(seo) == GetList(Get(seo, "links", EmptyDict), "internal_links") # <<>>

\* the fraction f is the number x
Is(f, x) == f.n = x * f.d

\* C20: the link score is 50 when total_links is 0; otherwise it is
\* (total_links - broken_count) / total_links * 100, plus 10 and capped at 100
\* when there is an internal link: 4 links, 1 broken give 85 with an internal
\* link and 75 without.
C20_LinkScore ==
    Scored =>
        LET total == TotalLinks(call.arg)
            broken == BrokenCount(call.arg)
            score == ret.value.breakdown.links
            working == (total - broken) * 100
        IN  /\ total = 0 => Is(score, 50)
            /\ (total > 0 /\ ~HasInternal(call.arg)) => score.n * total = working * score.d
            /\ (total > 0 /\ HasInternal(call.arg)) =>
                  IF working + 10 * total > 100 * total THEN Is(score, 100)
                  ELSE score.n * total = (working + 10 * total) * score.d
            /\ (total = 4 /\ broken = 1) =>
                  IF HasInternal(call.arg) THEN Is(score, 85) ELSE Is(score, 75)

\* a page of 4 links, one of them internal and one broken, was scored 85 for
\* its links
C20_Witness ==
    /\ Scored
    /\ TotalLinks(call.arg) = 4
    /\ BrokenCount(call.arg) = 1
    /\ HasInternal(call.arg)
    /\ Is(ret.value.breakdown.links, 85)

\* ---------------------------------------------------------------- deletion
\* create_report has handed out the id and no row has it: the report was deleted
Deleted(r) == r < next_id /\ ~reports[r].exists

\* no row of any table belongs to the id
NoTrace(r) == ~reports[r].exists /\ seo_rows[r] = NoRow /\ ~ai_rows[r]

\* C21: an id without a row is answered 404 by get_report and by
\* delete_report, and no step gives it a row of any table, but create_report
\* for an id that was never handed out; so once delete_report has removed a
\* report, get_report answers 404 for its id from then on, whatever step of
\* the report's analysis comes next.
C21_DeletedStaysGone ==
    [][\A r \in ReportIds :
          /\ (reports[r].exists /\ ~reports'[r].exists) =>
                /\ delete_report_status(r) = 204
                /\ delete_report(r)
          /\ ~reports[r].exists =>
                /\ get_report_status(r) = 404
                /\ delete_report_status(r) = 404
                /\ NoTrace(r)
                /\ \/ NoTrace(r)' /\ (get_report_status(r) = 404)'
                   \/ ~Deleted(r) /\ r = next_id /\ create_report]_vars

\* a report was deleted while its page was being crawled; the analysis went on
\* to its last commit, which raised; get_report answers 404
C21_Witness ==
    \E r \in ReportIds :
        /\ Deleted(r)
        /\ pc[r] = "raised"
        /\ crawl_out[r].kind = "return"
        /\ get_report_status(r) = 404
        /\ NoTrace(r)
\* ------------------------------------------------- the order of completion
\* _check_broken_links was called and has returned
Checked == call.kind = "_check_broken_links" /\ ret.kind = "return"

\* where the link of a broken-link record stands in the list of links
PlaceIn(list, record) == CHOOSE i \in 1..Len(list) : list[i].url = record.url

\* C22: the list _check_broken_links returns depends on the links and on the
\* outcome of each link's probe only, not on the order the probes ended in:
\* a link is in the list iff its own probe failed, its record carries the status
\* of its own probe, and the records stand in the order of their links.
C22_OrderIndependent ==
    Checked =>
        LET list == call.arg
            outcomes == call.outcomes
            broken == ret.value
        IN  /\ broken = _check_broken_links(list, outcomes)
            /\ \A i \in 1..Len(list) :
                  Failing(outcomes[i]) <=>
                      \E k \in 1..Len(broken) :
                          /\ broken[k].url = list[i].url
                          /\ broken[k].text = list[i].text
                          /\ broken[k].status_code = outcomes[i].status
            /\ Len(broken) = Cardinality({i \in 1..Len(list) : Failing(outcomes[i])})
            /\ \A k, l \in 1..Len(broken) :
                  k < l => PlaceIn(list, broken[k]) < PlaceIn(list, broken[l])

\* three probes ended last to first, with three different outcomes; the two
\* failing links are returned in the order of the list
C22_Witness ==
    /\ Checked
    /\ completed = <<3, 2, 1>>
    /\ call.outcomes[1].kind = "exception"
    /\ call.outcomes[2] = [kind |-> "status", status |-> 200]
    /\ call.outcomes[3] = [kind |-> "status", status |-> 400]
    /\ Len(ret.value) = 2
    /\ ret.value[1].url = call.arg[1].url
    /\ ret.value[2].url = call.arg[3].url
\* ------------------------------------------------- title, description, images
\* the score of a text of a length, None (Null) included, for a band lo..hi
LengthScore(length, lo, hi) ==
    IF length = Null \/ length = 0 THEN 0
    ELSE IF length < lo THEN 70
    ELSE IF length > hi THEN 80
    ELSE 100

\* C23: _score_title gives 0 to an absent or empty title, 70 to one shorter
\* than 30 characters, 80 to one longer than 60, and 100 to the lengths 30 to
\* 60, both included (45 -> 100, 20 -> 70, 70 -> 80); _score_meta_description
\* does the same with 120 and 160.
C23_LengthBands ==
    /\ call.kind = "_score_title" =>
          /\ ret = [kind |-> "return", value |-> LengthScore(call.arg, 30, 60)]
          /\ call.arg \in 30..60 => ret.value = 100
          /\ call.arg = 45 => ret.value = 100
          /\ call.arg = 20 => ret.value = 70
          /\ call.arg = 70 => ret.value = 80
    /\ call.kind = "_score_meta_description" =>
          /\ ret = [kind |-> "return", value |-> LengthScore(call.arg, 120, 160)]
          /\ call.arg \in 120..160 => ret.value = 100

\* _score_title was called on a title of 30 characters, the shortest that
\* loses nothing
C23_Witness ==
    /\ call = [kind |-> "_score_title", arg |-> 30]
    /\ ret = [kind |-> "return", value |-> 100]

\* C24: _score_images returns 70 when there is no image, and otherwise the
\* share of the images that have alt text, in percent (2 images, 1 without alt:
\* 50; 2 images, both without: 0).
C24_ImageScore ==
    call.kind = "_score_images" =>
        LET total == Get(call.arg, "total_images", 0)
            without == Get(call.arg, "images_without_alt", 0)
            score == ret.value
        IN  /\ ret.kind = "return"
            /\ total = 0 => score.n = 70 * score.d
            /\ total > 0 => score.n * total = (total - without) * 100 * score.d
            /\ (total = 2 /\ without = 1) => score.n = 50 * score.d
            /\ (total = 2 /\ without = 2) => score.n = 0

\* _score_images was called on 2 images, both without alt text, and
\* returned 0
C24_Witness ==
    /\ call = [kind |-> "_score_images",
               arg |-> [total_images |-> 2, images_without_alt |-> 2]]
    /\ ret.value.n = 0
\* ------------------------------------------------------ the report's fields
\* C25: a completed report has a score, a completion time and its seo_data
\* row; a failed report has an error message and no score; a pending or
\* processing report has no score and no seo_data row.
C25_FieldsFollowStatus ==
    \A r \in ReportIds :
        reports[r].exists =>
            /\ reports[r].status = "completed" =>
                  /\ reports[r].seo_score # Null
                  /\ reports[r].completed_at
                  /\ seo_rows[r] # NoRow
            /\ reports[r].status = "failed" =>
                  /\ reports[r].error_message \notin {NullStr, ""}
                  /\ reports[r].seo_score = Null
            /\ reports[r].status \in {"pending", "processing"} =>
                  /\ reports[r].seo_score = Null
                  /\ seo_rows[r] = NoRow

\* a report is completed, with its score, its completion time and its
\* seo_data row
C25_Witness ==
    \E r \in ReportIds :
        /\ reports[r].exists
        /\ reports[r].status = "completed"
        /\ reports[r].seo_score > 0
        /\ reports[r].completed_at
        /\ seo_rows[r] # NoRow

Unsettled(r) == reports[r].exists /\ reports[r].status \in {"pending", "processing"}
Settled(r) == reports[r].exists /\ reports[r].status \in {"completed", "failed"}

\* C26: when the background task is run and the page fetch, the probes and the
\* insight generation end, a report that is pending or processing is
\* eventually completed or failed, unless it is deleted first.
C26_EveryReportSettles ==
    \A r \in ReportIds : Unsettled(r) ~> (Settled(r) \/ ~reports[r].exists)

\* C27: when the page fetch is answered with a status >= 400 and a body that
\* the extraction does not raise on, the fetch does not fail: the body is
\* extracted as the body of a page answered with 200 is, crawl returns, and the
\* analysis ends with the report completed, with the score of what was
\* extracted, not failed.
C27_ErrorStatusIgnored ==
    \A r \in ReportIds :
        (http_status[r] # Null /\ http_status[r] >= 400 /\ failed_stage[r] # "extract") =>
            /\ failed_stage[r] = "none"
            /\ crawl_out[r].kind # "raise"
            /\ \E raw \in Pages : seo_data[r] = ExtractSeoData(raw, TargetUrl)
            /\ (pc[r] = "done" /\ reports[r].exists) =>
                  /\ reports[r].status = "completed"
                  /\ reports[r].error_message = NullStr
                  /\ reports[r].seo_score = calculate_score(crawl_out[r].value).overall_score
                  /\ seo_rows[r] = seo_data_model(crawl_out[r].value)

\* the page fetch was answered 404, the analysis has ended and the report
\* is completed with a score
C27_Witness ==
    \E r \in ReportIds :
        /\ http_status[r] = 404
        /\ pc[r] = "done"
        /\ reports[r].exists
        /\ reports[r].status = "completed"
        /\ reports[r].seo_score > 0
        /\ seo_rows[r] # NoRow
====
